---- MODULE Spec2Model ----
\* A model of llama-cpp-2/src/model.rs: the safe wrapper around `llama_model`.
\* Every wrapper method is an operator that computes the method's outcome
\* (its Result, the native calls it made, the temporary buffers it left
\* allocated); every action applies one method to an input and records the
\* outcome. The native library (llama.cpp) is an oracle behind the FFI.
EXTENDS Integers, Sequences, FiniteSets, TLC

VARIABLES handles, freeCalls, ctxs, heap, last

vars == <<handles, freeCalls, ctxs, heap, last>>

-----------------------------------------------------------------------------
\* Bounds of the model.

\* number of model handles a run may load
MaxModels == 2
\* contexts that may borrow one model at a time
MaxContexts == 1
\* size of the modelled vocabulary (token ids 0 .. NVocab-1)
NVocab == 13
\* buffer_size arguments 0 .. MaxBufSize (and the default) are tried
MaxBufSize == 3
\* length of the longest token piece of the modelled vocabulary
LongPieceLen == 33
\* tokens_to_str is tried on sequences of up to MaxSeq tokens
MaxSeq == 2
\* str_to_token is tried on strings of 0 .. MaxStrLen bytes
MaxStrLen == 20
\* the native tokenizer writes up to MaxTokens tokens after the optional BOS
MaxTokens == 10
\* get_chat_template is tried with buf_size 0 .. MaxTmplBuf
MaxTmplBuf == 5
\* apply_chat_template is tried on chats of up to MaxChat messages
MaxChat == 2
\* the native formatter produces up to MaxOut bytes
MaxOut == 3
\* temporary buffers that may stay allocated before the run stops calling
MaxLeaked == 1

\* Program constants.
DefaultBufferSize == 32
MinTokensEstimation == 8
BufferHeadroom == 2

-----------------------------------------------------------------------------
\* Values.

\* what the caller holds between two calls: no result
NoCall == [op |-> "none"]

Ok(v) == [tag |-> "Ok", val |-> v, code |-> 0]

Err(e, c) == [tag |-> e, val |-> <<>>, code |-> c]

Panic(msg) == [tag |-> "Panic", val |-> msg, code |-> 0]

\* one call across the FFI: the native function, the model pointer, the token
\* argument (-1 when it has none), the capacity argument, the allocated size
\* of the buffer passed with it, and the return value
NativeCall(fn, ptr, tok, cap, room, ret) ==
  [fn |-> fn, ptr |-> ptr, tok |-> tok, cap |-> cap, room |-> room, ret |-> ret]

\* what a method call did: its result, its native calls in order, and the
\* temporary buffers it allocated and did not release or hand to the caller
Outcome(result, calls, live) == [result |-> result, calls |-> calls, live |-> live]

Rep(b, n) == [i \in 1..n |-> b]

Min(a, b) == IF a < b THEN a ELSE b

Max(a, b) == IF a > b THEN a ELSE b

\* String::from_utf8 / CStr::to_str: whether the bytes are well-formed UTF-8
RECURSIVE IsUtf8(_)
IsUtf8(b) ==
  IF b = <<>> THEN TRUE
  ELSE LET n == Len(b)
           In(i, lo, hi) == i <= n /\ b[i] >= lo /\ b[i] <= hi
           Cont(i) == In(i, 128, 191)
           w == IF b[1] < 128 THEN 1
                ELSE IF In(1, 194, 223) /\ Cont(2) THEN 2
                ELSE IF b[1] = 224 /\ In(2, 160, 191) /\ Cont(3) THEN 3
                ELSE IF (In(1, 225, 236) \/ In(1, 238, 239)) /\ Cont(2) /\ Cont(3) THEN 3
                ELSE IF b[1] = 237 /\ In(2, 128, 159) /\ Cont(3) THEN 3
                ELSE IF b[1] = 240 /\ In(2, 144, 191) /\ Cont(3) /\ Cont(4) THEN 4
                ELSE IF In(1, 241, 243) /\ Cont(2) /\ Cont(3) /\ Cont(4) THEN 4
                ELSE IF b[1] = 244 /\ In(2, 128, 143) /\ Cont(3) /\ Cont(4) THEN 4
                ELSE 0
       IN  w > 0 /\ IsUtf8(SubSeq(b, w + 1, n))

from_utf8(bytes) == IF IsUtf8(bytes) THEN Ok(bytes) ELSE Err("Utf8Error", 0)

\* strlen: the bytes of a C buffer before its first NUL
RECURSIVE CStrBytes(_)
CStrBytes(buf) ==
  IF buf = <<>> \/ buf[1] = 0 THEN <<>> ELSE <<buf[1]>> \o CStrBytes(Tail(buf))

\* CString::new(vec![b'*'; n]).into_raw(): n stars and the terminating NUL
StarBuffer(n) == Rep(42, n) \o <<0>>

-----------------------------------------------------------------------------
\* The native library behind the FFI. A model file is one of two vocabulary
\* families; they differ in how the newline token is classified and in
\* whether the file carries a chat template.

VocabKinds == {"spm", "bpe"}

TokenIds == 0 .. (NVocab - 1)

llama_token_bos(v) == 1

llama_token_eos(v) == 2

llama_token_nl(v) == 4

llama_token_get_type(v, t) ==
  CASE t = 0 -> "Unknown"
    [] t \in {1, 2, 3} -> "Control"
    [] t = 4 -> IF v = "spm" THEN "Byte" ELSE "Normal"
    [] t = 9 -> "UserDefined"
    [] t = 10 -> "Byte"
    [] t = 11 -> "Undefined"
    [] t = 12 -> "Unused"
    [] OTHER -> "Normal"

\* the text the native vocabulary holds for a token
Piece(v, t) ==
  CASE t = 0 -> <<60, 117, 62>>
    [] t = 1 -> <<60, 115, 62>>
    [] t = 2 -> <<60, 47, 115, 62>>
    [] t = 3 -> <<60, 124, 62>>
    [] t = 4 -> IF v = "spm" THEN <<60, 48, 120, 48, 65, 62>> ELSE <<196, 138>>
    [] t = 5 -> <<104, 105>>
    [] t = 6 -> Rep(97, LongPieceLen)
    [] t = 7 -> <<>>
    [] t = 8 -> <<255>>
    [] t = 9 -> <<195, 169>>
    [] t = 10 -> <<60, 48, 120, 52, 49, 62>>
    [] OTHER -> <<120>>

\* llama_token_to_piece: the piece is copied when it fits in `len` bytes,
\* otherwise nothing is written and minus the needed length is returned
llama_token_to_piece(v, t, buf, len) ==
  LET piece == Piece(v, t) IN
  IF Len(piece) > len
  THEN [ret |-> -Len(piece), buf |-> buf]
  ELSE [ret |-> Len(piece),
        buf |-> piece \o SubSeq(buf, Len(piece) + 1, Len(buf))]

-----------------------------------------------------------------------------
\* Detokenizer.

token_nl(v) == llama_token_nl(v)

token_bos(v) == llama_token_bos(v)

token_eos(v) == llama_token_eos(v)

token_type(v, t) == llama_token_get_type(v, t)

\* the token types decoded to empty bytes without a native decode
EmptyTypesNoByte == {"Unknown", "Undefined", "Unused"}

EmptyTypes == {"Unknown", "Undefined", "Byte", "Unused"}

NlCall(p, v) == NativeCall("llama_token_nl", p, -1, 0, 0, token_nl(v))

TypeCall(p, t) == NativeCall("llama_token_get_type", p, t, 0, 0, 0)

BosCall(p, v) == NativeCall("llama_token_bos", p, -1, 0, 0, token_bos(v))

EosCall(p, v) == NativeCall("llama_token_eos", p, -1, 0, 0, token_eos(v))

PieceCall(p, t, len, ret) ==
  NativeCall("llama_token_to_piece", p, t, len, len + 1, ret)

\* a decode that answers an insufficient buffer by one more native call
\* with the capacity the first call asked for
native_decode_retry(p, v, token, buffer_size, before) ==
  LET r1 == llama_token_to_piece(v, token, StarBuffer(buffer_size), buffer_size)
      c1 == PieceCall(p, token, buffer_size, r1.ret)
      r2 == llama_token_to_piece(v, token, StarBuffer(-r1.ret), -r1.ret)
      c2 == PieceCall(p, token, -r1.ret, r2.ret)
  IN  IF r1.ret = 0
      THEN Outcome(Err("UnknownTokenType", 0), before \o <<c1>>, <<"string">>)
      ELSE IF r1.ret < 0
      THEN Outcome(Ok(SubSeq(CStrBytes(r2.buf), 1, r2.ret)), before \o <<c1, c2>>, <<>>)
      ELSE Outcome(Ok(SubSeq(CStrBytes(r1.buf), 1, r1.ret)), before \o <<c1>>, <<>>)

\* model.rs 282-300: the buffer of buffer_size stars is handed to the native
\* decode as a raw pointer; only a positive size takes it back (from_raw),
\* reads the C string and truncates it to the size
native_decode(p, v, token, buffer_size, before) ==
  LET r == llama_token_to_piece(v, token, StarBuffer(buffer_size), buffer_size)
      c == PieceCall(p, token, buffer_size, r.ret)
      bytes == CStrBytes(r.buf)
  IN  IF r.ret = 0
      THEN Outcome(Err("UnknownTokenType", 0), before \o <<c>>, <<"string">>)
      ELSE IF r.ret < 0
      THEN Outcome(Err("InsufficientBufferSpace", r.ret), before \o <<c>>, <<"string">>)
      ELSE Outcome(Ok(SubSeq(bytes, 1, Min(r.ret, Len(bytes)))), before \o <<c>>, <<>>)

\* model.rs 267-300: the match on the token's type, then the native decode
decode_by_type(p, v, token, buffer_size, before) ==
  LET ty == token_type(v, token)
      c1 == before \o <<TypeCall(p, token)>>
  IN  IF ty \in EmptyTypes
      THEN Outcome(Ok(<<>>), c1, <<>>)
      ELSE IF ty = "Control" /\ token = token_bos(v)
      THEN Outcome(Ok(<<>>), c1 \o <<BosCall(p, v)>>, <<>>)
      ELSE IF ty = "Control" /\ token = token_eos(v)
      THEN Outcome(Ok(<<>>), c1 \o <<BosCall(p, v), EosCall(p, v)>>, <<>>)
      ELSE IF ty = "Control"
      THEN native_decode(p, v, token, buffer_size, c1 \o <<BosCall(p, v), EosCall(p, v)>>)
      ELSE native_decode(p, v, token, buffer_size, c1)

\* a detokenizer without the newline special case
token_to_bytes_with_size_no_nl(p, v, token, buffer_size) ==
  decode_by_type(p, v, token, buffer_size, <<NlCall(p, v)>>)

token_to_bytes_with_size(p, v, token, buffer_size) ==
  IF token = token_nl(v)
  THEN Outcome(Ok(<<10>>), <<NlCall(p, v)>>, <<>>)
  ELSE decode_by_type(p, v, token, buffer_size, <<NlCall(p, v)>>)

token_to_str_with_size(p, v, token, buffer_size) ==
  LET o == token_to_bytes_with_size(p, v, token, buffer_size) IN
  IF o.result.tag # "Ok" THEN o
  ELSE Outcome(from_utf8(o.result.val), o.calls, o.live)

token_to_str(p, v, token) == token_to_str_with_size(p, v, token, DefaultBufferSize)

token_to_bytes(p, v, token) == token_to_bytes_with_size(p, v, token, DefaultBufferSize)

\* a tokens_to_str that skips the tokens that fail to decode
RECURSIVE tokens_to_str_skip_errors(_, _, _)
tokens_to_str_skip_errors(p, v, tokens) ==
  IF tokens = <<>> THEN Outcome(Ok(<<>>), <<>>, <<>>)
  ELSE LET o == token_to_str(p, v, Head(tokens))
           rest == tokens_to_str_skip_errors(p, v, Tail(tokens))
           str == IF o.result.tag = "Ok" THEN o.result.val ELSE <<>>
       IN  Outcome(Ok(str \o rest.result.val), o.calls \o rest.calls,
                   o.live \o rest.live)

\* model.rs 126-128: the loop body, from the token at the head of `tokens`
\* on; `?` leaves the loop at the first token that fails
RECURSIVE tokens_to_str_loop(_, _, _, _, _)
tokens_to_str_loop(p, v, tokens, builder, calls) ==
  IF tokens = <<>> THEN Outcome(Ok(builder), calls, <<>>)
  ELSE LET o == token_to_str(p, v, Head(tokens)) IN
       IF o.result.tag # "Ok"
       THEN Outcome(o.result, calls \o o.calls, o.live)
       ELSE tokens_to_str_loop(p, v, Tail(tokens), builder \o o.result.val,
                               calls \o o.calls)

tokens_to_str(p, v, tokens) == tokens_to_str_loop(p, v, tokens, <<>>, <<>>)

-----------------------------------------------------------------------------
\* Tokenizer. A string is its byte length and whether it holds a NUL byte;
\* what the native tokenizer makes of it is the oracle's choice: the tokens
\* `w` it writes and the capacity `K` it asks for. Lengths beyond c_int are
\* beyond the checker's integers too: `wide` is "len" for a string whose
\* length does not fit a c_int while half of it does, "capacity" for one
\* whose estimated capacity does not fit either, and "no" for the strings
\* whose length `len` is written out.

Uninit == -1

\* model.rs 164
tokens_estimation(len, add_bos) ==
  Max(MinTokensEstimation, (len \div 2) + (IF add_bos THEN 1 ELSE 0))

\* llama_tokenize: with fewer than K slots nothing is written and -K is
\* returned; otherwise the tokens are written from the start of the buffer
llama_tokenize(w, K, data, n_max) ==
  IF n_max < K THEN [ret |-> -K, data |-> data] ELSE [ret |-> Len(w), data |-> w]

TokenizeCall(p, n_max, room, ret) ==
  NativeCall("llama_tokenize", p, -1, n_max, room, ret)

\* a retry that doubles the buffer instead of using the reported size
retry_capacity_doubled(size, capacity) == 2 * capacity

\* model.rs 186, 193: the capacity of the second attempt
retry_capacity(size, capacity) == -size

\* model.rs 205-206: set_len(size), then the elements become the result
set_len(data, size) == [i \in 1..size |-> IF i <= Len(data) THEN data[i] ELSE Uninit]

\* model.rs 154-207
str_to_token(p, str, add_bos, w, K) ==
  LET capacity == tokens_estimation(str.len, add_bos)
      r1 == llama_tokenize(w, K, <<>>, capacity)
      c1 == TokenizeCall(p, capacity, capacity, r1.ret)
      n2 == retry_capacity(r1.ret, capacity)
      room2 == Max(capacity, -r1.ret)
      r2 == llama_tokenize(w, K, r1.data, n2)
      c2 == TokenizeCall(p, n2, room2, r2.ret)
  IN  IF str.nul THEN Outcome(Err("InvalidString", 0), <<>>, <<>>)
      ELSE IF str.wide = "capacity"
      THEN Outcome(Panic("buffer capacity should fit into a c_int"), <<>>, <<>>)
      ELSE IF str.wide = "len" THEN Outcome(Err("IntegerConversion", 0), <<>>, <<>>)
      ELSE IF r1.ret >= 0 THEN Outcome(Ok(set_len(r1.data, r1.ret)), <<c1>>, <<>>)
      ELSE IF r2.ret < 0
      THEN Outcome(Panic("size is positive and usize "), <<c1, c2>>, <<>>)
      ELSE Outcome(Ok(set_len(r2.data, r2.ret)), <<c1, c2>>, <<>>)

-----------------------------------------------------------------------------
\* Chat templates.

HasTemplate(v) == v = "bpe"

Template(v) == <<123, 195, 169, 125>>

\* llama_model_meta_val_str: -1 without the key; otherwise snprintf of the
\* value into buf_size bytes, returning the value's full length
llama_model_meta_val_str(v, buf, buf_size) ==
  IF ~HasTemplate(v)
  THEN [ret |-> -1, buf |-> IF buf_size > 0 THEN <<0>> \o Tail(buf) ELSE buf]
  ELSE LET val == Template(v)
           n == Min(Len(val), buf_size - 1)
       IN  [ret |-> Len(val),
            buf |-> IF buf_size = 0 THEN buf
                    ELSE SubSeq(val, 1, n) \o <<0>> \o SubSeq(buf, n + 2, Len(buf))]

\* model.rs 336-358; `debug` is whether debug assertions are compiled in
get_chat_template(p, v, buf_size, debug) ==
  LET r == llama_model_meta_val_str(v, StarBuffer(buf_size), buf_size)
      c == NativeCall("llama_model_meta_val_str", p, -1, buf_size, buf_size + 1, r.ret)
      template == CStrBytes(r.buf)
  IN  IF r.ret < 0 THEN Outcome(Err("MissingTemplate", r.ret), <<c>>, <<"chat_temp">>)
      ELSE IF ~IsUtf8(template) THEN Outcome(Err("Utf8Error", 0), <<c>>, <<>>)
      ELSE IF debug /\ r.ret # Len(template)
      THEN Outcome(Panic("debug_assert_eq"), <<c>>, <<>>)
      ELSE Outcome(Ok(template), <<c>>, <<>>)

\* a byte stored in a Vec<i8>, and `c as u8`
ToI8(b) == IF b >= 128 THEN b - 256 ELSE b

ToU8(c) == IF c < 0 THEN c + 256 ELSE c

\* model.rs 423-425
RECURSIVE message_length(_)
message_length(chat) ==
  IF chat = <<>> THEN 0
  ELSE Len(Head(chat).role) + Len(Head(chat).content) + message_length(Tail(chat))

\* a buffer as long as the messages
buffer_len_no_headroom(len) == len

\* model.rs 426: the length of the output buffer
buffer_len(len) == len * BufferHeadroom

\* llama_chat_apply_template: a negative code when the template cannot be
\* applied; otherwise strncpy of the formatted chat into `length` bytes and
\* the formatted chat's full length
llama_chat_apply_template(fmt, buff, length) ==
  IF fmt.ret < 0 THEN [ret |-> fmt.ret, buff |-> buff]
  ELSE [ret |-> Len(fmt.out),
        buff |-> IF length > 0
                 THEN [i \in 1..Len(buff) |->
                         IF i <= length /\ i <= Len(fmt.out) THEN ToI8(fmt.out[i])
                         ELSE IF i <= length THEN 0 ELSE buff[i]]
                 ELSE buff]

\* model.rs 457: filter(|c| **c > 0).map(|&c| c as u8)
RECURSIVE filter_positive(_)
filter_positive(buff) ==
  IF buff = <<>> THEN <<>>
  ELSE (IF Head(buff) > 0 THEN <<ToU8(Head(buff))>> ELSE <<>>)
         \o filter_positive(Tail(buff))

\* model.rs 416-460. `tmpl` is "None", "Some" or "SomeNul" (an override with
\* an embedded NUL byte); `fmt` is what the native formatter makes of the
\* call. With "Some" the pointer handed to the formatter is the as_ptr() of
\* a CString already dropped, so the template the formatter reads, and with
\* it `fmt`, is arbitrary.
apply_chat_template(p, tmpl, chat, fmt) ==
  LET length == buffer_len(message_length(chat))
      buff == Rep(0, length)
      r == llama_chat_apply_template(fmt, buff, length)
      c == NativeCall("llama_chat_apply_template", p, -1, length, Len(buff), r.ret)
  IN  IF tmpl = "SomeNul" THEN Outcome(Err("InvalidTemplateString", 0), <<>>, <<>>)
      ELSE IF r.ret > length THEN Outcome(Err("BuffSizeError", 0), <<c>>, <<>>)
      ELSE Outcome(from_utf8(filter_positive(r.buff)), <<c>>, <<>>)

-----------------------------------------------------------------------------
\* Model handle: loading, queries, contexts, release.

NullPtr == 0

\* model.rs 366-385. `path` says whether the path is UTF-8, whether it holds
\* a NUL byte and what file it names; `fresh` is the pointer the native
\* loader returns for a file it can load.
load_from_file(path, debug, fresh) ==
  IF debug /\ path.file = "missing" THEN Outcome(Panic("path does not exist"), <<>>, <<>>)
  ELSE IF ~path.utf8 THEN Outcome(Err("PathToStrError", 0), <<>>, <<>>)
  ELSE IF path.nul THEN Outcome(Err("InvalidString", 0), <<>>, <<>>)
  ELSE LET llama_model == IF path.file \in VocabKinds THEN fresh ELSE NullPtr
           c == NativeCall("llama_load_model_from_file", NullPtr, -1, 0, 0, llama_model)
       IN  IF llama_model = NullPtr THEN Outcome(Err("NullResult", 0), <<c>>, <<>>)
           ELSE Outcome(Ok(llama_model), <<c>>, <<>>)

\* a Drop that frees the model twice
drop_twice(p) ==
  Outcome(Ok(<<>>), <<NativeCall("llama_free_model", p, -1, 0, 0, 0),
                      NativeCall("llama_free_model", p, -1, 0, 0, 0)>>, <<>>)

\* model.rs 463-467
drop(p) == Outcome(Ok(<<>>), <<NativeCall("llama_free_model", p, -1, 0, 0, 0)>>, <<>>)

\* model.rs 394-406; `context` is what llama_new_context_with_model returns
new_context(p, context) ==
  LET c == NativeCall("llama_new_context_with_model", p, -1, 0, 0, context) IN
  IF context = NullPtr THEN Outcome(Err("NullReturn", 0), <<c>>, <<>>)
  ELSE Outcome(Ok(context), <<c>>, <<>>)

\* model.rs 66-69; `n` is what llama_n_ctx_train returns
n_ctx_train(p, n) ==
  LET c == NativeCall("llama_n_ctx_train", p, -1, 0, 0, n) IN
  IF n < 0 THEN Outcome(Panic("n_ctx_train fits into an u32"), <<c>>, <<>>)
  ELSE Outcome(Ok(n), <<c>>, <<>>)

\* model.rs 307-309
n_vocab(p) == Outcome(Ok(NVocab), <<NativeCall("llama_n_vocab", p, -1, 0, 0, NVocab)>>, <<>>)

\* model.rs 317-320 and 487-496; `raw` is what llama_vocab_type returns
vocab_type(p, raw) ==
  LET c == NativeCall("llama_vocab_type", p, -1, 0, 0, 0) IN
  IF raw = "LLAMA_VOCAB_TYPE_BPE" THEN Outcome(Ok("BPE"), <<c>>, <<>>)
  ELSE IF raw = "LLAMA_VOCAB_TYPE_SPM" THEN Outcome(Ok("SPM"), <<c>>, <<>>)
  ELSE Outcome(Panic("invalid vocab type"), <<c>>, <<>>)

-----------------------------------------------------------------------------
\* Inputs.

Handles == 1..MaxModels

Paths ==
  {pa \in [utf8 : BOOLEAN, nul : BOOLEAN, file : VocabKinds \cup {"missing", "corrupt"}] :
     /\ pa.nul => pa.file = "missing"
     /\ ~pa.utf8 => ~pa.nul}

BufferSizes == (0..MaxBufSize) \cup {DefaultBufferSize}

\* the newline token, a short piece, a piece longer than the default buffer,
\* a piece that is not UTF-8
SeqTokens == {4, 5, 6, 8}

TokenSeqs == UNION {[1..n -> SeqTokens] : n \in 0..MaxSeq}

\* the empty string and the lengths at which the estimate leaves its minimum
StrLens == {0} \cup {n \in 0..MaxStrLen : n >= 2 * MinTokensEstimation - 2}

Strs ==
  {st \in [len : StrLens, nul : BOOLEAN, wide : {"no", "len", "capacity"}] :
     /\ st.nul => st.len > 0
     /\ st.wide # "no" => st.len = MaxStrLen}

TokenizerOutput(add_bos, m) ==
  (IF add_bos THEN <<llama_token_bos("spm")>> ELSE <<>>)
    \o [i \in 1..m |-> (i + 2) % NVocab]

Messages ==
  {[role |-> <<117>>, content |-> <<>>], [role |-> <<117>>, content |-> <<104, 105>>]}

Chats == UNION {[1..n -> Messages] : n \in 0..MaxChat}

\* what the native formatter may make of a chat: a failure, an ASCII text,
\* or a text that starts with a two-byte character
Formatted ==
  {[ret |-> -1, out |-> <<>>]}
    \cup {[ret |-> n, out |-> Rep(104, n)] : n \in 0..MaxOut}
    \cup {[ret |-> n + 2, out |-> <<195, 169>> \o Rep(104, n)] : n \in 0..(MaxOut - 2)}

-----------------------------------------------------------------------------
\* The state: the handles the caller has loaded, the calls of llama_free_model
\* per model pointer, the contexts borrowing each model, the temporary buffers
\* of completed calls still allocated, and the call that last returned.

Init ==
  /\ handles = [h \in Handles |-> [state |-> "none", vocab |-> "none"]]
  /\ freeCalls = [h \in Handles |-> 0]
  /\ ctxs = [h \in Handles |-> 0]
  /\ heap = 0
  /\ last = NoCall

Live == {h \in Handles : handles[h].state = "live"}

\* the caller is single-threaded and holds one result at a time
Ready == last.op = "none"

Stale(calls) ==
  \E i \in 1..Len(calls) : calls[i].ptr \in Handles /\ freeCalls[calls[i].ptr] > 0

Returned(op, h, args, o) ==
  last' = [op |-> op, h |-> h, args |-> args, result |-> o.result,
           calls |-> o.calls, live |-> o.live, stale |-> Stale(o.calls)]

\* a method of a live model that only reads it
Query(op, h, args, o) ==
  /\ Returned(op, h, args, o)
  /\ heap' = heap + Len(o.live)
  /\ UNCHANGED <<handles, freeCalls, ctxs>>

Call_load_from_file ==
  /\ Ready
  /\ \E pa \in Paths, debug \in BOOLEAN :
       LET free == {h \in Handles : handles[h].state = "none"}
           fresh == IF free = {} THEN NullPtr ELSE CHOOSE h \in free : \A g \in free : h <= g
           o == load_from_file(pa, debug, fresh)
       IN  /\ free # {}
           /\ Returned("load_from_file", NullPtr, [path |-> pa], o)
           /\ handles' = IF o.result.tag = "Ok"
                         THEN [handles EXCEPT ![fresh] = [state |-> "live", vocab |-> pa.file]]
                         ELSE handles
           /\ UNCHANGED <<freeCalls, ctxs, heap>>

\* the handle goes out of scope; nothing borrows it any more
Call_drop ==
  /\ Ready
  /\ \E h \in Live :
       LET o == drop(h) IN
       /\ ctxs[h] = 0
       /\ Returned("drop", h, [none |-> 0], o)
       /\ handles' = [handles EXCEPT ![h] = [state |-> "dropped", vocab |-> "none"]]
       /\ freeCalls' = [freeCalls EXCEPT ![h] =
            @ + Cardinality({i \in 1..Len(o.calls) : o.calls[i].fn = "llama_free_model"})]
       /\ UNCHANGED <<ctxs, heap>>

Call_new_context ==
  /\ Ready
  /\ \E h \in Live, context \in {NullPtr, 1} :
       LET o == new_context(h, context) IN
       /\ ctxs[h] < MaxContexts
       /\ Returned("new_context", h, [none |-> 0], o)
       /\ ctxs' = IF o.result.tag = "Ok" THEN [ctxs EXCEPT ![h] = @ + 1] ELSE ctxs
       /\ UNCHANGED <<handles, freeCalls, heap>>

\* a context returned by new_context ends its borrow of the model
DropContext ==
  /\ Ready
  /\ \E h \in Live :
       /\ ctxs[h] > 0
       /\ ctxs' = [ctxs EXCEPT ![h] = @ - 1]
       /\ UNCHANGED <<handles, freeCalls, heap, last>>

Call_n_ctx_train ==
  /\ Ready
  /\ \E h \in Live, n \in {-1, 4096} :
       Query("n_ctx_train", h, [none |-> 0], n_ctx_train(h, n))

Call_n_vocab ==
  /\ Ready
  /\ \E h \in Live : Query("n_vocab", h, [none |-> 0], n_vocab(h))

Call_vocab_type ==
  /\ Ready
  /\ \E h \in Live, raw \in {"LLAMA_VOCAB_TYPE_BPE", "LLAMA_VOCAB_TYPE_SPM", "LLAMA_VOCAB_TYPE_WPM"} :
       Query("vocab_type", h, [raw |-> raw], vocab_type(h, raw))

Call_token_to_bytes_with_size ==
  /\ Ready /\ heap < MaxLeaked
  /\ \E h \in Live, token \in TokenIds, buffer_size \in BufferSizes :
       Query("token_to_bytes_with_size", h, [token |-> token, buffer_size |-> buffer_size],
             token_to_bytes_with_size(h, handles[h].vocab, token, buffer_size))

Call_token_to_str_with_size ==
  /\ Ready /\ heap < MaxLeaked
  /\ \E h \in Live, token \in TokenIds, buffer_size \in BufferSizes :
       Query("token_to_str_with_size", h, [token |-> token, buffer_size |-> buffer_size],
             token_to_str_with_size(h, handles[h].vocab, token, buffer_size))

Call_token_to_bytes ==
  /\ Ready /\ heap < MaxLeaked
  /\ \E h \in Live, token \in TokenIds :
       Query("token_to_bytes", h, [token |-> token, buffer_size |-> DefaultBufferSize],
             token_to_bytes(h, handles[h].vocab, token))

Call_token_to_str ==
  /\ Ready /\ heap < MaxLeaked
  /\ \E h \in Live, token \in TokenIds :
       Query("token_to_str", h, [token |-> token, buffer_size |-> DefaultBufferSize],
             token_to_str(h, handles[h].vocab, token))

Call_tokens_to_str ==
  /\ Ready /\ heap < MaxLeaked
  /\ \E h \in Live, tokens \in TokenSeqs :
       Query("tokens_to_str", h, [tokens |-> tokens],
             tokens_to_str(h, handles[h].vocab, tokens))

Call_str_to_token ==
  /\ Ready
  /\ \E h \in Live, st \in Strs, add_bos \in BOOLEAN, m \in 0..MaxTokens, slack \in {0, 1} :
       LET passable == ~st.nul /\ st.wide = "no"
           w == IF passable THEN TokenizerOutput(add_bos, m) ELSE <<>>
           K == IF passable THEN Len(w) + slack ELSE 0
       IN  Query("str_to_token", h,
                 [str |-> st, add_bos |-> add_bos, w |-> w, K |-> K],
                 str_to_token(h, st, add_bos, w, K))

Call_get_chat_template ==
  /\ Ready /\ heap < MaxLeaked
  /\ \E h \in Live, buf_size \in 0..MaxTmplBuf, debug \in BOOLEAN :
       Query("get_chat_template", h, [buf_size |-> buf_size, debug |-> debug],
             get_chat_template(h, handles[h].vocab, buf_size, debug))

Call_apply_chat_template ==
  /\ Ready
  /\ \E h \in Live, tmpl \in {"None", "Some", "SomeNul"}, chat \in Chats, fmt \in Formatted :
       Query("apply_chat_template", h, [tmpl |-> tmpl, chat |-> chat, fmt |-> fmt],
             apply_chat_template(h, tmpl, chat, fmt))

\* the caller is done with the value the last call returned
DropResult ==
  /\ last.op # "none"
  /\ last' = NoCall
  /\ UNCHANGED <<handles, freeCalls, ctxs, heap>>

Next ==
  \/ Call_load_from_file
  \/ Call_drop
  \/ Call_new_context
  \/ DropContext
  \/ Call_n_ctx_train
  \/ Call_n_vocab
  \/ Call_vocab_type
  \/ Call_token_to_bytes_with_size
  \/ Call_token_to_str_with_size
  \/ Call_token_to_bytes
  \/ Call_token_to_str
  \/ Call_tokens_to_str
  \/ Call_str_to_token
  \/ Call_get_chat_template
  \/ Call_apply_chat_template
  \/ DropResult

Spec == Init /\ [][Next]_vars

-----------------------------------------------------------------------------
\* Properties.

PieceCalls == SelectSeq(last.calls, LAMBDA c : c.fn = "llama_token_to_piece")

BytesOps == {"token_to_bytes_with_size", "token_to_bytes"}

DetokOps == BytesOps \cup {"token_to_str_with_size", "token_to_str"}

LastVocab == handles[last.h].vocab

\* C1 as the spec states it: when the native decode is reached and its first
\* invocation returns a negative size, the decode is invoked a second time
\* with the required capacity, and a token whose piece is longer than
\* buffer_size is returned, not reported as an error.
C1_RetryResolves ==
  (last.op \in BytesOps /\ PieceCalls # <<>> /\ PieceCalls[1].ret < 0)
    => /\ Len(PieceCalls) = 2
       /\ PieceCalls[2].cap = -PieceCalls[1].ret
       /\ last.result = Ok(Piece(LastVocab, last.args.token))

\* C1 amended: the native decode is invoked at most once per call; when that
\* invocation returns a negative size there is no second invocation and the
\* call returns InsufficientBufferSpace carrying that size, which is minus
\* the length of the token's piece.
C1_NoRetry ==
  last.op \in DetokOps
    => /\ Len(PieceCalls) <= 1
       /\ (PieceCalls # <<>> /\ PieceCalls[1].ret < 0)
            => /\ PieceCalls[1].cap = last.args.buffer_size
               /\ PieceCalls[1].ret = -Len(Piece(LastVocab, last.args.token))
               /\ last.result = Err("InsufficientBufferSpace", PieceCalls[1].ret)

C1_Witness ==
  /\ last.op = "token_to_bytes_with_size"
  /\ last.args.token = 5
  /\ last.args.buffer_size = 1
  /\ Len(PieceCalls) = 1
  /\ PieceCalls[1].ret = -2
  /\ last.result.tag = "InsufficientBufferSpace"

\* C2: str_to_token invokes the native tokenizer at most twice, first with
\* the estimated capacity max(8, len/2 + bos) and a second time only after a
\* negative first return -K, then with capacity exactly K. For a string the
\* native tokenizer can be given (no NUL byte, a length that fits c_int) and
\* a tokenizer that reports -K below K slots and writes its n <= K tokens
\* otherwise, the call returns exactly the tokens written, in order, after 2
\* invocations when the estimate is below K and 1 otherwise, and the result
\* is no longer than the capacity of the buffer of the last invocation. A
\* string the tokenizer cannot be given is refused without an invocation.
C2_AtMostOneRetry ==
  last.op = "str_to_token"
    => LET a == last.args
           n == Len(last.calls)
           bos == IF a.add_bos THEN 1 ELSE 0
           half == (a.str.len \div 2) + bos
           est == IF half > 8 THEN half ELSE 8
           passable == ~a.str.nul /\ a.str.wide = "no"
       IN  /\ n <= 2
           /\ n >= 1 => last.calls[1].cap = est /\ last.calls[1].room >= est
           /\ n = 2 => /\ last.calls[1].ret = -a.K
                       /\ last.calls[2].cap = a.K
                       /\ last.calls[2].room >= a.K
           /\ passable
                => /\ n = (IF est < a.K THEN 2 ELSE 1)
                   /\ last.result = Ok(a.w)
                   /\ Len(last.result.val) <= last.calls[n].cap
           /\ ~passable => n = 0 /\ last.result.tag # "Ok"

C2_Witness ==
  /\ last.op = "str_to_token"
  /\ Len(last.calls) = 2
  /\ last.args.str.len = 18
  /\ last.calls[1].cap = 10
  /\ last.calls[2].cap = 11
  /\ last.result.tag = "Ok"
  /\ Len(last.result.val) = 10

\* C3 as the spec states it: every temporary buffer of a conversion is
\* released before the conversion returns, on every exit path, so that no
\* buffer of a completed call remains allocated.
C3_BuffersReleased ==
  /\ heap = 0
  /\ last.op # "none" => last.live = <<>>

EmptyTypeNames == {"Unknown", "Undefined", "Byte", "Unused"}

\* C4 as the spec states it: every token classified Unknown, Undefined, Byte
\* or Unused decodes to Ok with empty bytes, without a native decode.
C4_EmptyForAllOfType ==
  (last.op \in BytesOps
     /\ llama_token_get_type(LastVocab, last.args.token) \in EmptyTypeNames)
    => last.result = Ok(<<>>) /\ PieceCalls = <<>>

\* C4 amended: every token classified Unknown, Undefined, Byte or Unused
\* that is not the model's newline token decodes to Ok with empty bytes, and
\* no token of these types, the newline token included, reaches the native
\* decode.
C4_EmptyUnlessNewline ==
  (last.op \in BytesOps
     /\ llama_token_get_type(LastVocab, last.args.token) \in EmptyTypeNames)
    => /\ PieceCalls = <<>>
       /\ last.args.token # llama_token_nl(LastVocab) => last.result = Ok(<<>>)

C4_Witness ==
  /\ last.op = "token_to_bytes_with_size"
  /\ last.args.token = 10
  /\ last.args.buffer_size = 0
  /\ llama_token_get_type(LastVocab, 10) = "Byte"
  /\ last.result = Ok(<<>>)

\* C5: for the model's newline token, whatever its type and the buffer size,
\* token_to_bytes_with_size (and token_to_bytes) returns Ok with the single
\* byte 10 and does not invoke the native decode.
C5_NewlineIsOneByte ==
  (last.op \in BytesOps /\ last.args.token = llama_token_nl(LastVocab))
    => last.result = Ok(<<10>>) /\ PieceCalls = <<>>

C5_Witness ==
  /\ last.op = "token_to_bytes_with_size"
  /\ LastVocab = "spm"
  /\ last.args.token = llama_token_nl("spm")
  /\ last.args.buffer_size = 0
  /\ last.result = Ok(<<10>>)

\* the combined byte length of the roles and contents of a chat
ChatBytes(chat) ==
  LET S[i \in 0..Len(chat)] ==
        IF i = 0 THEN 0 ELSE S[i - 1] + Len(chat[i].role) + Len(chat[i].content)
  IN  S[Len(chat)]

\* C6 as the spec states it: apply_chat_template allocates 2L bytes, invokes
\* the native formatter exactly once, returns BuffSizeError when the
\* formatter reports more than 2L and does not when it reports 0 .. 2L.
C6_ExactlyOneInvocation ==
  last.op = "apply_chat_template"
    => LET L == ChatBytes(last.args.chat) IN
       /\ Len(last.calls) = 1
       /\ last.calls[1].room = 2 * L
       /\ last.calls[1].ret > 2 * L => last.result = Err("BuffSizeError", 0)
       /\ (last.calls[1].ret >= 0 /\ last.calls[1].ret <= 2 * L)
            => last.result.tag # "BuffSizeError"

\* C6 amended: apply_chat_template invokes the native formatter at most
\* once: exactly once, with a buffer of exactly 2L bytes, unless the template
\* override holds a NUL byte, and then not at all (InvalidTemplateString). It
\* returns BuffSizeError whenever the formatter reports more than 2L, and
\* never when it reports 0 .. 2L.
C6_OneInvocationUnlessBadTemplate ==
  last.op = "apply_chat_template"
    => LET L == ChatBytes(last.args.chat) IN
       IF last.args.tmpl = "SomeNul"
       THEN last.calls = <<>> /\ last.result = Err("InvalidTemplateString", 0)
       ELSE /\ Len(last.calls) = 1
            /\ last.calls[1].room = 2 * L
            /\ last.calls[1].cap = 2 * L
            /\ last.calls[1].ret > 2 * L => last.result = Err("BuffSizeError", 0)
            /\ (last.calls[1].ret >= 0 /\ last.calls[1].ret <= 2 * L)
                 => last.result.tag # "BuffSizeError"

C6_Witness ==
  /\ last.op = "apply_chat_template"
  /\ last.args.tmpl = "None"
  /\ ChatBytes(last.args.chat) = 1
  /\ Len(last.calls) = 1
  /\ last.calls[1].room = 2
  /\ last.calls[1].ret = 3
  /\ last.result = Err("BuffSizeError", 0)

\* C7: tokens_to_str decodes the tokens in order with token_to_str (buffer
\* size 32): when every token decodes the result is the concatenation of the
\* per-token strings in input order; otherwise it is the error of the first
\* token that fails, and no token after that one is decoded.
C7_FirstErrorStops ==
  last.op = "tokens_to_str"
    => LET toks == last.args.tokens
           per(i) == token_to_str_with_size(last.h, LastVocab, toks[i], 32)
           fails == {i \in 1..Len(toks) : per(i).result.tag # "Ok"}
           k == IF fails = {} THEN Len(toks)
                ELSE CHOOSE i \in fails : \A j \in fails : i <= j
           Str[i \in 0..Len(toks)] == IF i = 0 THEN <<>> ELSE Str[i - 1] \o per(i).result.val
           Log[i \in 0..Len(toks)] == IF i = 0 THEN <<>> ELSE Log[i - 1] \o per(i).calls
       IN  /\ fails = {} => last.result = Ok(Str[Len(toks)])
           /\ fails # {} => last.result = per(k).result
           /\ last.calls = Log[k]

C7_Witness ==
  /\ last.op = "tokens_to_str"
  /\ last.args.tokens = <<5, 6>>
  /\ last.result = Err("InsufficientBufferSpace", -LongPieceLen)
  /\ Len(PieceCalls) = 2

\* C8: llama_free_model has been called exactly once for every handle that
\* was dropped and never for a handle still alive or never loaded; a load
\* that fails returns no pointer to free; no native call is made on the
\* pointer of a model already freed.
C8_FreedExactlyOnce ==
  /\ \A h \in Handles :
       freeCalls[h] = (IF handles[h].state = "dropped" THEN 1 ELSE 0)
  /\ last.op # "none" => ~last.stale
  /\ last.op = "load_from_file"
       => IF last.result.tag = "Ok"
          THEN /\ last.result.val \in Handles
               /\ handles[last.result.val].state = "live"
          ELSE /\ last.result.tag \in {"PathToStrError", "InvalidString", "NullResult", "Panic"}
               /\ \A i \in 1..Len(last.calls) : last.calls[i].ret = NullPtr

C8_Witness ==
  /\ last.op = "drop"
  /\ handles[last.h].state = "dropped"
  /\ freeCalls[last.h] = 1
  /\ \E g \in Handles : handles[g].state = "live" /\ freeCalls[g] = 0

\* C9 as the spec states it: when the native formatter reports a length of
\* at most 2L, the returned text holds, in order, every non-zero byte the
\* formatter wrote (values 1 .. 255) and nothing else.
C9_KeepsEveryNonZeroByte ==
  (last.op = "apply_chat_template" /\ last.calls # <<>>
     /\ last.calls[1].ret >= 0 /\ last.calls[1].ret <= last.calls[1].cap)
    => last.result = Ok(SelectSeq(last.args.fmt.out, LAMBDA b : b # 0))

\* C10 as the spec states it: when llama_chat_apply_template returns a
\* negative value, apply_chat_template returns an error, not Ok.
C10_NativeFailureIsErr ==
  (last.op = "apply_chat_template" /\ last.calls # <<>> /\ last.calls[1].ret < 0)
    => last.result.tag # "Ok"

====
